---- MODULE Spec2Model ----
(***************************************************************************)
(* A model of PyTrack/Experiment.py: the Experiment object (configuration, *)
(* AOI resolution, subject list, indicator matrix, dataframe assembly in   *)
(* analyse, getMetaData) and the Visualize window (mode selection,         *)
(* checkboxes, delegate calls).                                            *)
(*                                                                         *)
(* Python values are modelled as follows.  Indices are 0-based as in the   *)
(* source.  A dict that the code iterates is a sequence of <<key, value>>  *)
(* pairs (insertion order).  None is the record None.  A value that ends   *)
(* up in a dataframe row is a pair <<kind, n>>: kind says what the value   *)
(* is (the indicator's name, "Subject_type", "Stimuli_type", a factor's    *)
(* name, "subject") and n which one, so that a row can be compared with    *)
(* the column list it is stored under.                                     *)
(***************************************************************************)
EXTENDS Integers, Sequences, FiniteSets, TLC

VARIABLES
    json_data,         \* the parsed configuration file (fixed after Init)
    aoi_coords,        \* Experiment.aoi_coords
    stimuli,           \* Experiment.stimuli: <<category, names>> pairs
    subjects,          \* Experiment.subjects: sequence of Subject records
    meta_matrix_dict,  \* Experiment.meta_matrix_dict: <<types array, dict>>
    ret,               \* outcome of the last call on the Experiment
    v,                 \* Visualize.v (0 unset, 1 group, 2 individual)
    chk_bt_var,        \* Visualize.chk_bt_var (<<>> until group mode is set up)
    submit_shown,      \* whether submit_frame (the 'Visualize' button) is packed
    clicks             \* the button clicks handled so far, with their delegate calls

vars == <<json_data, aoi_coords, stimuli, subjects, meta_matrix_dict, ret,
          v, chk_bt_var, submit_shown, clicks>>

expVars == <<json_data, aoi_coords, stimuli, subjects, meta_matrix_dict, ret>>
guiVars == <<v, chk_bt_var, submit_shown, clicks>>

----------------------------------------------------------------------------
(* Bounds of the configurations explored *)

NumSubjects == 2
NumStimTypes == 2
StimPerType == 2
DisplayWidth == 4
DisplayHeight == 3
MaxClicks == 2

(* None, and an object held where None may be held instead *)
None == [isNone |-> TRUE]
Obj(x) == [isNone |-> FALSE, val |-> x]

Range(s) == {s[i] : i \in 1..Len(s)}

RECURSIVE SumSeq(_)
SumSeq(s) == IF s = <<>> THEN 0 ELSE Head(s) + SumSeq(Tail(s))

(* Python dict lookups on a sequence of <<key, value>> pairs *)
HasKey(d, k) == \E i \in 1..Len(d) : d[i][1] = k
Get(d, k) == d[CHOOSE i \in 1..Len(d) : d[i][1] = k][2]

----------------------------------------------------------------------------
(* Sensor.meta_cols and the Subject collaborator *)

Sensor_meta_cols ==
    << <<"EyeTracker", <<"pupil_size", "blink_rate", "no_revisits">> >> >>

AllMetaCols ==
    UNION {Range(Sensor_meta_cols[i][2]) : i \in 1..Len(Sensor_meta_cols)}

(* the indicator of stimulus k (0-based) of category t for subject i *)
RawValue(i, t, k) == 10 * i + k

(* Subject(path, name, subj_type, stimuli, ..., aoi): no indicators yet *)
Subject(name, subj_type, aoi) ==
    [name |-> name, subj_type |-> subj_type, aoi |-> aoi,
     aggregate_meta |-> <<>>]

(* Subject.subjectAnalysis: one entry per stimulus category, in the order  *)
(* of the categories; per indicator one value per stimulus, or their mean  *)
(* when average_flag; standardising subtracts the subject's baseline.      *)
SubjectValues(sub, t, n, average_flag, standardise_flag) ==
    LET base == IF standardise_flag THEN sub.name ELSE 0
        raw  == [k \in 1..n |-> RawValue(sub.name, t, k - 1) - base]
    IN  IF average_flag THEN << SumSeq(raw) \div n >> ELSE raw

subjectAnalysis(sub, stims, sensors, average_flag, standardise_flag) ==
    [sub EXCEPT !.aggregate_meta =
        [t \in 1..Len(stims) |->
            << stims[t][1],
               [m \in UNION {Range(Get(Sensor_meta_cols, s)) : s \in Range(sensors)} |->
                   SubjectValues(sub, stims[t][1], Len(stims[t][2]),
                                 average_flag, standardise_flag)] >>]]

----------------------------------------------------------------------------
(* The configuration file *)

(* "Stimuli": category t holds the stimuli <<t, 0>> .. <<t, StimPerType-1>> *)
StimNames(t) == [k \in 1..StimPerType |-> <<t, k - 1>>]
AllStimNames == {<<t, k>> : t \in 1..NumStimTypes, k \in 0..(StimPerType - 1)}

(* "Subjects": two groups, the first holding the first half of the names *)
GroupOf(i) == IF 2 * i <= NumSubjects + 1 THEN 1 ELSE 2
GroupNames(g) == SelectSeq([i \in 1..NumSubjects |-> i], LAMBDA i : GroupOf(i) = g)

Sensors == <<"EyeTracker">>

(* A configuration.  stim_fmt says whether each category of "Stimuli" is a *)
(* list of names or an object keyed by name (the form that can carry       *)
(* within factors).  subj_undef and stim_undef name the subject and the    *)
(* stimulus for which the additional factor is not defined: none (0, <<>>) *)
(* or the first subject and the first stimulus of the first category.      *)
Config(stim_fmt, undef, GazeAOI) ==
    [Display_width |-> DisplayWidth, Display_height |-> DisplayHeight,
     Stimuli |-> [t \in 1..NumStimTypes |-> <<t, StimNames(t)>>],
     Subjects |-> [g \in 1..2 |-> <<g, GroupNames(g)>>],
     stim_fmt |-> stim_fmt,
     subj_undef |-> IF undef THEN 1 ELSE 0,
     stim_undef |-> IF undef THEN <<1, 0>> ELSE <<>>,
     GazeAOI |-> GazeAOI]

(* the configurations explored: both forms of "Stimuli", with and without  *)
(* an undefined factor, and one whose columns of interest hold "GazeAOI"   *)
Configs ==
    {Config(f, u, FALSE) : f \in {"list", "dict"}, u \in BOOLEAN}
    \cup {Config("list", FALSE, TRUE)}

----------------------------------------------------------------------------
(* Experiment.__init__ *)

(* drawAOI: the selector callback stores the drawn corners in the local    *)
(* variables aoi_left_x .. aoi_right_y; the function body ends after       *)
(* plt.show() without a return statement, so the call evaluates to None.   *)
drawAOI(cfg, drawn) ==
    LET aoi_left_x  == drawn[1]
        aoi_left_y  == drawn[2]
        aoi_right_x == drawn[3]
        aoi_right_y == drawn[4]
    IN  None

(* the aoi argument: a str, or a tuple (start_x, start_y, end_x, end_y) *)
AoiStr(s) == [type |-> "str", str |-> s, tuple |-> <<>>]
AoiTuple(t) == [type |-> "tuple", str |-> "", tuple |-> t]

AoiArgs ==
    {AoiStr("NA"), AoiStr("draw"),
     AoiTuple(<<1, 1, DisplayWidth - 1, DisplayHeight - 1>>)}

(* what the user draws when prompted *)
Drawn == {<<1, 0, DisplayWidth - 1, DisplayHeight>>}

ResolveAoi(cfg, aoi, drawn) ==
    IF aoi.type = "str"
    THEN IF aoi.str = "draw"
         THEN drawAOI(cfg, drawn)
         ELSE Obj(<<0, 0, cfg.Display_width, cfg.Display_height>>)
    ELSE Obj(aoi.tuple)

stimuliArrayInitialisation(cfg) == cfg.Stimuli

RECURSIVE Flatten(_)
Flatten(ss) == IF ss = <<>> THEN <<>> ELSE Head(ss) \o Flatten(Tail(ss))

subjectArrayInitialisation(cfg, coords) ==
    Flatten([g \in 1..Len(cfg.Subjects) |->
        [j \in 1..Len(cfg.Subjects[g][2]) |->
            Subject(cfg.Subjects[g][2][j], cfg.Subjects[g][1], coords)]])

(* np.ndarray(n, dtype=str): n one-character cells, empty *)
StrArray(n) == [i \in 0..(n - 1) |-> ""]

(* storing a name in a one-character str cell keeps its first character;   *)
(* group g is named "Group_<g>"                                            *)
U1(g) == "G"

(* np.ndarray((r, c), dtype=object): r x c cells holding None *)
NewArray(r, c) ==
    [shape |-> <<r, c>>,
     cells |-> [p \in (0..(r - 1)) \X (0..(c - 1)) |-> None]]

InitialMetaMatrix(subs) == <<StrArray(Len(subs)), <<>>>>

----------------------------------------------------------------------------
(* Experiment.metaMatrixInitialisation *)

(* a faulty variant of IndicatorArray: the second axis sized by the        *)
(* sensors instead of the stimulus categories                              *)
IndicatorArrayPerSensor(subs, stims) == NewArray(Len(subs), Len(Sensors))

(* the array allocated for one indicator *)
IndicatorArray(subs, stims) == NewArray(Len(subs), Len(stims))

(* dict.update({k: a}) on a sequence of pairs *)
Update(d, k, a) ==
    IF HasKey(d, k)
    THEN [i \in 1..Len(d) |-> IF d[i][1] = k THEN <<k, a>> ELSE d[i]]
    ELSE Append(d, <<k, a>>)

MetaOrder == Flatten([i \in 1..Len(Sensor_meta_cols) |-> Sensor_meta_cols[i][2]])

(* a faulty variant of AllocateAll: only the first indicator gets an array *)
AllocateFirst(d, metas, subs, stims) ==
    IF metas = <<>> THEN d
    ELSE Update(d, Head(metas), IndicatorArray(subs, stims))

RECURSIVE AllocateAll(_, _, _, _)
AllocateAll(d, metas, subs, stims) ==
    IF metas = <<>> THEN d
    ELSE AllocateAll(Update(d, Head(metas), IndicatorArray(subs, stims)),
                     Tail(metas), subs, stims)

InBounds(a, r, c) == r \in 0..(a.shape[1] - 1) /\ c \in 0..(a.shape[2] - 1)

(* the cell writes of one subject, in loop order: <<meta, row, col, value>> *)
WritesOf(sub_index, agg) ==
    Flatten([s \in 1..Len(agg) |->
        LET inner == agg[s][2]
            ms    == SelectSeq(MetaOrder, LAMBDA m : m \in DOMAIN inner)
        IN  [j \in 1..Len(ms) |-> <<ms[j], sub_index, s - 1, inner[ms[j]]>>]])

(* self.meta_matrix_dict[1][meta][sub_index, stim_index] = value, one      *)
(* after the other; a missing key or an index outside the array raises and *)
(* ends the call.  st.writes collects the writes attempted.                *)
RECURSIVE ApplyWrites(_, _)
ApplyWrites(st, ws) ==
    IF ws = <<>> \/ st.exc # "none" THEN st
    ELSE LET w == Head(ws)
             logged == [st EXCEPT !.writes = @ \cup {<<w[1], w[2], w[3]>>}]
         IN  IF ~HasKey(st.dict, w[1])
             THEN [logged EXCEPT !.exc = "KeyError"]
             ELSE LET a == Get(st.dict, w[1])
                  IN  IF ~InBounds(a, w[2], w[3])
                      THEN [logged EXCEPT !.exc = "IndexError"]
                      ELSE ApplyWrites(
                             [logged EXCEPT !.dict = Update(@, w[1],
                                 [a EXCEPT !.cells[<<w[2], w[3]>>] = Obj(w[4])])],
                             Tail(ws))

(* the loop over the subjects, from sub_index on *)
RECURSIVE SubjectLoop(_, _, _, _, _, _)
SubjectLoop(st, sub_index, stims, sensors, standardise_flag, average_flag) ==
    IF sub_index >= Len(st.subs) \/ st.exc # "none" THEN st
    ELSE LET sub == subjectAnalysis(st.subs[sub_index + 1], stims, sensors,
                                    average_flag, standardise_flag)
             st1 == [st EXCEPT !.subs[sub_index + 1] = sub,
                               !.types[sub_index] = U1(sub.subj_type)]
             st2 == ApplyWrites(st1, WritesOf(sub_index, sub.aggregate_meta))
         IN  SubjectLoop(st2, sub_index + 1, stims, sensors,
                         standardise_flag, average_flag)

MetaMatrixResult(subs, stims, mm, sensors, standardise_flag, average_flag) ==
    SubjectLoop([subs |-> subs, types |-> mm[1],
                 dict |-> AllocateAll(mm[2], MetaOrder, subs, stims),
                 writes |-> {}, exc |-> "none"],
                0, stims, sensors, standardise_flag, average_flag)

metaMatrixInitialisation(standardise_flag, average_flag) ==
    LET r == MetaMatrixResult(subjects, stimuli, meta_matrix_dict, Sensors,
                              standardise_flag, average_flag)
    IN  /\ subjects' = r.subs
        /\ meta_matrix_dict' = <<r.types, r.dict>>
        /\ ret' = [op |-> "metaMatrixInitialisation", exc |-> r.exc,
                   writes |-> r.writes]
        /\ UNCHANGED <<json_data, aoi_coords, stimuli, guiVars>>

----------------------------------------------------------------------------
(* Experiment.analyse *)

(* the additional factors a configuration can define *)
BetweenFactor == "Gender"
WithinFactor == "Brightness"

(* json_data["Subjects"][subj_type][name][param] *)
SubjectFactor(cfg, subj_type, name, param) ==
    IF param = BetweenFactor /\ name # cfg.subj_undef
    THEN [exc |-> "none", val |-> <<param, name % 2>>]
    ELSE [exc |-> "KeyError"]

(* self.stimuli[stimuli_type][index]: a list is indexed by position; an    *)
(* object keyed by stimulus name has no integer key                        *)
StimulusAt(cfg, stims, stimuli_type, index) ==
    LET names == Get(stims, stimuli_type)
    IN  IF cfg.stim_fmt = "dict" THEN [exc |-> "KeyError"]
        ELSE IF index \in 0..(Len(names) - 1)
             THEN [exc |-> "none", val |-> names[index + 1]]
             ELSE [exc |-> "IndexError"]

(* json_data["Stimuli"][stimuli_type][stimulus_name][param]: a list cannot *)
(* be indexed by a name                                                    *)
StimulusFactor(cfg, stimuli_type, stimulus_name, param) ==
    IF cfg.stim_fmt = "list" THEN [exc |-> "TypeError"]
    ELSE IF param = WithinFactor /\ stimulus_name # cfg.stim_undef
         THEN [exc |-> "none", val |-> <<param, stimulus_name[2]>>]
         ELSE [exc |-> "KeyError"]

(* the index the within-factor lookup uses for the stimulus of a row *)
WithinIndex(stimuli_index, k) == stimuli_index

(* the entries the loop over between_factor_list appends *)
RECURSIVE BetweenEntries(_, _, _)
BetweenEntries(cfg, sub, params) ==
    IF params = <<>> THEN <<>>
    ELSE LET param == Head(params)
             rest  == BetweenEntries(cfg, sub, Tail(params))
             f     == SubjectFactor(cfg, sub.subj_type, sub.name, param)
         IN  IF param = "Subject_type" THEN rest
             ELSE IF f.exc = "none" THEN <<f.val>> \o rest
             ELSE rest

(* the entries the loop over within_factor_list appends *)
RECURSIVE WithinEntries(_, _, _, _, _)
WithinEntries(cfg, stims, stimuli_type, index, params) ==
    IF params = <<>> THEN <<>>
    ELSE LET param == Head(params)
             rest  == WithinEntries(cfg, stims, stimuli_type, index, Tail(params))
             n     == StimulusAt(cfg, stims, stimuli_type, index)
             f     == IF n.exc = "none"
                      THEN StimulusFactor(cfg, stimuli_type, n.val, param)
                      ELSE n
         IN  IF param = "Stimuli_type" THEN rest
             ELSE IF f.exc = "none" THEN <<f.val>> \o rest
             ELSE rest

(* the row built for one value of a cell *)
BuildRow(cfg, stims, meta, value, sub, stimuli_type, stimuli_index, k, between_factor_list, within_factor_list) ==
    << <<meta, value>>, <<"Subject_type", sub.subj_type>> >>
    \o BetweenEntries(cfg, sub, between_factor_list)
    \o << <<"Stimuli_type", stimuli_type>> >>
    \o WithinEntries(cfg, stims, stimuli_type, WithinIndex(stimuli_index, k),
                     within_factor_list)
    \o << <<"subject", sub.name>> >>

ColumnList(meta, between_factor_list, within_factor_list) ==
    <<meta>> \o between_factor_list \o within_factor_list \o <<"subject">>

(* data.loc[len(data)] = row: a row of another length than the columns     *)
(* raises ValueError                                                       *)
LocAppend(data, column_list, row) ==
    IF Len(row) = Len(column_list)
    THEN [exc |-> "none", data |-> Append(data, row)]
    ELSE [exc |-> "ValueError", data |-> data]

(* the loop over the values of one cell, inside the outer try: the first   *)
(* exception ends the cell.  fr.built collects every row built.            *)
RECURSIVE ValueLoop(_, _, _, _, _, _, _, _, _, _)
ValueLoop(fr, cfg, stims, meta, sub, cell, values, k, between_factor_list, within_factor_list) ==
    IF k >= Len(values) THEN fr
    ELSE LET row == BuildRow(cfg, stims, meta, values[k + 1], sub, cell[3],
                             cell[2], k, between_factor_list, within_factor_list)
             app == LocAppend(fr.data, fr.column_list, row)
             fr1 == [fr EXCEPT !.data = app.data,
                               !.built = Append(@, [sub_index |-> cell[1],
                                                    stimuli_index |-> cell[2],
                                                    stimuli_type |-> cell[3],
                                                    k |-> k, row |-> row,
                                                    appended |-> app.exc = "none"])]
         IN  IF app.exc # "none"
             THEN [fr1 EXCEPT !.caught = @ \cup {<<cell[1], cell[2], app.exc>>}]
             ELSE ValueLoop(fr1, cfg, stims, meta, sub, cell, values, k + 1,
                            between_factor_list, within_factor_list)

(* the (subject, stimulus type) cells in loop order *)
CellsOf(subs) ==
    Flatten([i \in 1..Len(subs) |->
        [s \in 1..Len(subs[i].aggregate_meta) |->
            <<i - 1, s - 1, subs[i].aggregate_meta[s][1]>>]])

(* the loops over subjects and their stimulus types for one indicator; the *)
(* read of the cell is outside the try, so its exception ends analyse      *)
RECURSIVE CellLoop(_, _, _, _, _, _, _, _, _)
CellLoop(fr, cells, cfg, stims, subs, dict, meta, between_factor_list, within_factor_list) ==
    IF cells = <<>> \/ fr.exc # "none" THEN fr
    ELSE LET cell == Head(cells)
             sub  == subs[cell[1] + 1]
             fr0  == [fr EXCEPT !.reads = @ + 1]
         IN  IF ~HasKey(dict, meta) THEN [fr0 EXCEPT !.exc = "KeyError"]
             ELSE LET a == Get(dict, meta)
                  IN  IF ~InBounds(a, cell[1], cell[2])
                      THEN [fr0 EXCEPT !.exc = "IndexError"]
                      ELSE LET value_array == a.cells[<<cell[1], cell[2]>>]
                               fr1 == IF value_array.isNone
                                      THEN [fr0 EXCEPT !.caught =
                                              @ \cup {<<cell[1], cell[2], "TypeError">>}]
                                      ELSE ValueLoop(fr0, cfg, stims, meta, sub, cell,
                                                     value_array.val, 0,
                                                     between_factor_list,
                                                     within_factor_list)
                           IN  CellLoop(fr1, Tail(cells), cfg, stims, subs, dict, meta,
                                        between_factor_list, within_factor_list)

(* the statistical test: Mixed_anova takes the first factor of each list;  *)
(* what the statistics library does with the dataframe is not modelled     *)
StatTest(statistical_test, between_factor_list, within_factor_list) ==
    IF statistical_test = "Mixed_anova"
       /\ (between_factor_list = <<>> \/ within_factor_list = <<>>)
    THEN "IndexError"
    ELSE "none"

Frame(cfg, stims, subs, dict, meta, between_factor_list, within_factor_list, statistical_test) ==
    LET fr == CellLoop([meta |-> meta,
                        column_list |-> ColumnList(meta, between_factor_list,
                                                   within_factor_list),
                        data |-> <<>>, built |-> <<>>, caught |-> {},
                        reads |-> 0, exc |-> "none"],
                       CellsOf(subs), cfg, stims, subs, dict, meta,
                       between_factor_list, within_factor_list)
    IN  IF fr.exc # "none" THEN fr
        ELSE [fr EXCEPT !.exc = StatTest(statistical_test, between_factor_list,
                                         within_factor_list)]

(* the indicators analyse builds a dataframe for, in loop order *)
MetaNotToBeConsidered(cfg) ==
    {"pupil_size", "pupil_size_downsample"}
    \cup (IF cfg.GazeAOI THEN {} ELSE {"no_revisits", "first_pass", "second_pass"})

ConsideredMetas(cfg, sensors, parameter_list) ==
    SelectSeq(Flatten([i \in 1..Len(sensors) |-> Get(Sensor_meta_cols, sensors[i])]),
              LAMBDA meta : /\ meta \notin MetaNotToBeConsidered(cfg)
                            /\ ("all" \in parameter_list \/ meta \in parameter_list))

(* the loop over the indicators: an exception ends it *)
RECURSIVE MetaLoop(_, _, _, _, _, _, _, _, _)
MetaLoop(frames, metas, cfg, stims, subs, dict, between_factor_list, within_factor_list, statistical_test) ==
    IF metas = <<>> THEN frames
    ELSE LET fr == Frame(cfg, stims, subs, dict, Head(metas), between_factor_list,
                         within_factor_list, statistical_test)
         IN  IF fr.exc # "none" THEN Append(frames, fr)
             ELSE MetaLoop(Append(frames, fr), Tail(metas), cfg, stims, subs, dict,
                           between_factor_list, within_factor_list, statistical_test)

(* the calls of analyse explored: the default factor lists with each       *)
(* parameter list and test, every pair of factor lists with one of them,   *)
(* and empty factor lists                                                  *)
ParameterLists == {{"all"}, {"blink_rate"}}
BetweenLists ==
    {<<"Subject_type">>, <<"Subject_type", BetweenFactor>>,
     <<BetweenFactor, "Subject_type">>, <<BetweenFactor>>}
WithinLists ==
    {<<"Stimuli_type">>, <<"Stimuli_type", WithinFactor>>, <<WithinFactor>>}
StatisticalTests == {"Mixed_anova", "anova"}

AnalyseCalls ==
    (ParameterLists \X {<<"Subject_type">>} \X {<<"Stimuli_type">>} \X StatisticalTests)
    \cup ({{"all"}} \X BetweenLists \X WithinLists \X {"anova"})
    \cup ({{"all"}} \X {<<>>} \X {<<>>} \X StatisticalTests)

analyse(parameter_list, between_factor_list, within_factor_list, statistical_test) ==
    LET frames == MetaLoop(<<>>, ConsideredMetas(json_data, Sensors, parameter_list),
                           json_data, stimuli, subjects, meta_matrix_dict[2],
                           between_factor_list, within_factor_list, statistical_test)
    IN  /\ ret' = [op |-> "analyse",
                   exc |-> IF frames = <<>> THEN "none" ELSE frames[Len(frames)].exc,
                   between_factor_list |-> between_factor_list,
                   within_factor_list |-> within_factor_list,
                   frames |-> frames]
        /\ UNCHANGED <<json_data, aoi_coords, stimuli, subjects, meta_matrix_dict,
                       guiVars>>

----------------------------------------------------------------------------
(* Experiment.getMetaData *)

(* the sub argument: a Subject object of the experiment, or a name *)
SubArgs ==
    {[kind |-> "object", id |-> i] : i \in 1..NumSubjects}
    \cup {[kind |-> "name", id |-> 1]}

(* the stim argument: None, the first stimulus of the first category, the  *)
(* last stimulus of the last category, or a name declared nowhere          *)
StimArgs ==
    {None, Obj(<<1, 0>>), Obj(<<NumStimTypes, StimPerType - 1>>), Obj(<<0, 0>>)}

(* list.index(x): the 0-based position of the first element equal to x;    *)
(* ValueError when there is none (never -1)                                *)
ListIndex(list, x) ==
    IF \E j \in 1..Len(list) : list[j] = x
    THEN [exc |-> "none",
          val |-> (CHOOSE j \in 1..Len(list) :
                      list[j] = x /\ \A h \in 1..(j - 1) : list[h] # x) - 1]
    ELSE [exc |-> "ValueError"]

(* self.subjects.index(sub): a Subject object equals only itself *)
SubjectIndex(subs, sub) ==
    IF sub.kind = "object"
    THEN ListIndex([j \in 1..Len(subs) |-> subs[j].name], sub.id)
    ELSE [exc |-> "ValueError"]

(* Subject.stimulus[cat][ind].sensors[sensor].metadata: the Stimulus        *)
(* objects of a category are in the order of its names                     *)
StimulusMetadata(sub, stims, cat, ind, sensor) ==
    IF ~HasKey(stims, cat) THEN [exc |-> "KeyError"]
    ELSE IF ind \notin 0..(Len(Get(stims, cat)) - 1) THEN [exc |-> "IndexError"]
    ELSE [exc |-> "none",
          val |-> [subject |-> sub.name, stimulus |-> Get(stims, cat)[ind + 1],
                   sensor |-> sensor]]

(* the loop over the categories, from category c on: the first category's  *)
(* index call either finds the name or raises                              *)
RECURSIVE FindStimulus(_, _, _, _)
FindStimulus(cfg, stims, c, stim) ==
    IF c > Len(stims) THEN [exc |-> "none", stim_cat |-> "", stim_ind |-> -1]
    ELSE IF cfg.stim_fmt = "dict" THEN [exc |-> "AttributeError"]
    ELSE LET found == ListIndex(stims[c][2], stim)
         IN  IF found.exc # "none" THEN [exc |-> found.exc]
             ELSE IF found.val # -1
                  THEN [exc |-> "none", stim_cat |-> stims[c][1], stim_ind |-> found.val]
                  ELSE FindStimulus(cfg, stims, c + 1, stim)

GetMetaDataResult(cfg, stims, subs, sub, stim, sensor) ==
    LET sub_ind == SubjectIndex(subs, sub)
    IN  IF sub_ind.exc # "none" THEN [exc |-> sub_ind.exc]
        ELSE IF stim.isNone
             THEN [exc |-> "none", val |-> subs[sub_ind.val + 1].aggregate_meta]
             ELSE LET f == FindStimulus(cfg, stims, 1, stim.val)
                  IN  IF f.exc # "none" THEN [exc |-> f.exc]
                      ELSE IF f.stim_ind = -1 THEN [exc |-> "KeyError"]
                      ELSE StimulusMetadata(subs[sub_ind.val + 1], stims,
                                            f.stim_cat, f.stim_ind, sensor)

getMetaData(sub, stim, sensor) ==
    LET r == GetMetaDataResult(json_data, stimuli, subjects, sub, stim, sensor)
    IN  /\ ret' = [op |-> "getMetaData", exc |-> r.exc, sub |-> sub, stim |-> stim,
                   sensor |-> sensor,
                   val |-> IF r.exc = "none" THEN Obj(r.val) ELSE None]
        /\ UNCHANGED <<json_data, aoi_coords, stimuli, subjects, meta_matrix_dict,
                       guiVars>>

----------------------------------------------------------------------------
(* The Visualize window *)

(* the subjects whose checkbox is set, in subject-list order *)
CheckedSubjects(subs, chk) ==
    LET idx == SelectSeq([j \in 1..Len(chk) |-> j], LAMBDA j : chk[j] = 1)
    IN  [h \in 1..Len(idx) |-> subs[idx[h]].name]

(* a faulty variant of ButtonClick: one delegate call per checked subject *)
ButtonClickEach(subs, chk, sub) ==
    IF sub.isNone
    THEN LET sub_list == CheckedSubjects(subs, chk)
         IN  IF sub_list = <<>>
             THEN [made |-> <<>>, exc |-> "IndexError"]
             ELSE [made |-> [h \in 1..Len(sub_list) |->
                               [sub |-> sub_list[h], viz_type |-> "group",
                                sub_list |-> sub_list]],
                   exc |-> "none"]
    ELSE [made |-> <<[sub |-> sub.val, viz_type |-> "default", sub_list |-> <<>>]>>,
          exc |-> "none"]

(* Visualize.button_click: the delegate calls it makes, and its exception *)
ButtonClick(subs, chk, sub) ==
    IF sub.isNone
    THEN LET sub_list == CheckedSubjects(subs, chk)
         IN  IF sub_list = <<>>
             THEN [made |-> <<>>, exc |-> "IndexError"]
             ELSE [made |-> <<[sub |-> sub_list[1], viz_type |-> "group",
                               sub_list |-> sub_list]>>,
                   exc |-> "none"]
    ELSE [made |-> <<[sub |-> sub.val, viz_type |-> "default", sub_list |-> <<>>]>>,
          exc |-> "none"]

(* Visualize.subFrameSetup, the command of both radio buttons *)
subFrameSetup(value) ==
    /\ v' = value
    /\ IF value = 1
       THEN /\ chk_bt_var' = [i \in 1..Len(subjects) |-> 0]
            /\ submit_shown' = TRUE
       ELSE /\ chk_bt_var' = chk_bt_var
            /\ submit_shown' = FALSE
    /\ UNCHANGED <<expVars, clicks>>

(* the user sets or clears the checkbox of subject i (group mode) *)
ToggleCheckbox(i) ==
    /\ v = 1
    /\ chk_bt_var' = [chk_bt_var EXCEPT ![i] = 1 - @]
    /\ UNCHANGED <<expVars, v, submit_shown, clicks>>

(* the user clicks 'Visualize' (shown in group mode): button_click() *)
ClickVisualize ==
    /\ submit_shown
    /\ Len(clicks) < MaxClicks
    /\ LET r == ButtonClick(subjects, chk_bt_var, None)
       IN  clicks' = Append(clicks,
                 [button |-> "Visualize", sub |-> 0, chk |-> chk_bt_var,
                  made |-> r.made, exc |-> r.exc])
    /\ UNCHANGED <<expVars, v, chk_bt_var, submit_shown>>

(* the user clicks the button of subject i (individual mode):              *)
(* button_click(sub)                                                       *)
ClickSubject(i) ==
    /\ v = 2
    /\ Len(clicks) < MaxClicks
    /\ LET r == ButtonClick(subjects, chk_bt_var, Obj(subjects[i].name))
       IN  clicks' = Append(clicks,
                 [button |-> "subject", sub |-> subjects[i].name, chk |-> chk_bt_var,
                  made |-> r.made, exc |-> r.exc])
    /\ UNCHANGED <<expVars, v, chk_bt_var, submit_shown>>

(* Visualize.__init__: no mode chosen, the 'Visualize' button not packed *)
VisualizeInit ==
    /\ v = 0
    /\ chk_bt_var = <<>>
    /\ submit_shown = FALSE
    /\ clicks = <<>>

----------------------------------------------------------------------------
(* The constructor calls explored: every configuration with the default    *)
(* aoi, and every aoi argument with one configuration                      *)
DefaultConfig == Config("list", FALSE, TRUE)

ConstructorCalls ==
    (Configs \X {AoiStr("NA")} \X Drawn)
    \cup ({DefaultConfig} \X AoiArgs \X Drawn)

ExperimentInit(cfg, aoi, drawn) ==
    LET coords == ResolveAoi(cfg, aoi, drawn)
        subs   == subjectArrayInitialisation(cfg, coords)
    IN  /\ json_data = cfg
        /\ aoi_coords = coords
        /\ stimuli = stimuliArrayInitialisation(cfg)
        /\ subjects = subs
        /\ meta_matrix_dict = InitialMetaMatrix(subs)
        /\ ret = [op |-> "__init__", exc |-> "none", aoi |-> aoi, drawn |-> drawn]

Init ==
    /\ \E c \in ConstructorCalls : ExperimentInit(c[1], c[2], c[3])
    /\ VisualizeInit

Next ==
    \/ \E sf \in BOOLEAN, af \in BOOLEAN : metaMatrixInitialisation(sf, af)
    \/ \E c \in AnalyseCalls : analyse(c[1], c[2], c[3], c[4])
    \/ \E sub \in SubArgs, stim \in StimArgs : getMetaData(sub, stim, "EyeTracker")

Spec == Init /\ [][Next]_vars

(* Experiment.visualizeData: the window over the experiment's subjects,    *)
(* and what the user does in it until it is closed                         *)
InitGui ==
    /\ ExperimentInit(DefaultConfig, AoiStr("NA"), <<0, 0, 0, 0>>)
    /\ VisualizeInit

NextGui ==
    \/ \E value \in {1, 2} : subFrameSetup(value)
    \/ \E i \in 1..NumSubjects : ToggleCheckbox(i)
    \/ ClickVisualize
    \/ \E i \in 1..NumSubjects : ClickSubject(i)

SpecGui == InitGui /\ [][NextGui]_vars

----------------------------------------------------------------------------
(* Properties *)

NumConfiguredSubjects ==
    SumSeq([g \in 1..Len(json_data.Subjects) |-> Len(json_data.Subjects[g][2])])
NumConfiguredCategories == Len(json_data.Stimuli)

(* C1: after any call of metaMatrixInitialisation (any flags, any number   *)
(* of calls) every indicator array has a subject axis as long as the       *)
(* number of subjects and a stimulus-type axis as long as the number of    *)
(* configured stimulus categories, and every cell write of the call lands  *)
(* inside those bounds (so none raises).                                   *)
C1_IndicatorShape ==
    /\ \A i \in 1..Len(meta_matrix_dict[2]) :
          LET a == meta_matrix_dict[2][i][2]
          IN  /\ a.shape = <<NumConfiguredSubjects, NumConfiguredCategories>>
              /\ DOMAIN a.cells = (0..(NumConfiguredSubjects - 1))
                                  \X (0..(NumConfiguredCategories - 1))
    /\ ret.op = "metaMatrixInitialisation" =>
          /\ ret.exc = "none"
          /\ \A w \in ret.writes :
                /\ w[2] \in 0..(NumConfiguredSubjects - 1)
                /\ w[3] \in 0..(NumConfiguredCategories - 1)

(* a call has allocated an array for every indicator and written cells *)
C1_Witness ==
    /\ ret.op = "metaMatrixInitialisation"
    /\ Len(meta_matrix_dict[2]) = Cardinality(AllMetaCols)
    /\ Cardinality(ret.writes) =
          Cardinality(AllMetaCols) * NumConfiguredSubjects * NumConfiguredCategories

(* C2: construction leaves the indicator mapping empty, and whenever       *)
(* analyse reads a cell of an indicator the mapping holds an array for it  *)
(* (the read does not raise KeyError).                                     *)
C2_LazyMatrix ==
    /\ ret.op = "__init__" => meta_matrix_dict[2] = <<>>
    /\ ret.op = "analyse" =>
          \A i \in 1..Len(ret.frames) :
             ret.frames[i].reads > 0 =>
                /\ HasKey(meta_matrix_dict[2], ret.frames[i].meta)
                /\ ret.frames[i].exc # "KeyError"

(* analyse has read every cell of an indicator and appended rows *)
C2_Witness ==
    /\ ret.op = "analyse"
    /\ \E i \in 1..Len(ret.frames) :
          /\ ret.frames[i].reads = NumConfiguredSubjects * NumConfiguredCategories
          /\ ret.frames[i].data # <<>>

C4_GetMetaDataAnyCategory ==
    (/\ ret.op = "getMetaData"
     /\ ret.sub.kind = "object"
     /\ ~ret.stim.isNone
     /\ json_data.stim_fmt = "list")
    => (ret.stim.val \in AllStimNames =>
          /\ ret.exc = "none"
          /\ ret.val = Obj([subject |-> ret.sub.id, stimulus |-> ret.stim.val,
                            sensor |-> ret.sensor]))

(* C5: for every choice of the factor lists, each row analyse builds has   *)
(* one entry per dataframe column, and each entry sits under the column    *)
(* that names it.  (Stated for configurations that define the factors and  *)
(* for calls without additional within factors.)                           *)
C5_RowsMatchColumns ==
    (/\ ret.op = "analyse"
     /\ json_data.subj_undef = 0
     /\ ret.within_factor_list = <<"Stimuli_type">>)
    => \A i \in 1..Len(ret.frames) :
          LET fr == ret.frames[i]
          IN  \A b \in 1..Len(fr.built) :
                 /\ Len(fr.built[b].row) = Len(fr.column_list)
                 /\ \A j \in 1..Len(fr.column_list) :
                       fr.built[b].row[j][1] = fr.column_list[j]

(* the additional factors are defined for a cell's subject and stimuli *)
FactorsDefined(cfg, sub, stimuli_type, between_factor_list, within_factor_list) ==
    /\ \A j \in 1..Len(between_factor_list) :
          between_factor_list[j] # "Subject_type" =>
             /\ between_factor_list[j] = BetweenFactor
             /\ sub.name # cfg.subj_undef
    /\ \A j \in 1..Len(within_factor_list) :
          within_factor_list[j] # "Stimuli_type" =>
             /\ within_factor_list[j] = WithinFactor
             /\ cfg.stim_fmt = "dict"
             /\ cfg.stim_undef = <<>> \/ cfg.stim_undef[1] # stimuli_type

(* C6: when a factor named in the lists is not defined for some subject or *)
(* stimulus, no exception escapes the row-building loops and the rows of   *)
(* every cell whose factors are all defined are still appended.            *)
C6_OtherCellsAppended ==
    (/\ ret.op = "analyse"
     /\ json_data.subj_undef # 0)
    => \A i \in 1..Len(ret.frames) :
          LET fr == ret.frames[i]
          IN  /\ fr.exc \notin {"KeyError", "ValueError", "TypeError"}
              /\ \A s \in 1..Len(subjects) :
                 \A t \in 1..Len(subjects[s].aggregate_meta) :
                    LET stimuli_type == subjects[s].aggregate_meta[t][1]
                        cell == Get(meta_matrix_dict[2], fr.meta).cells[<<s - 1, t - 1>>]
                    IN  (/\ FactorsDefined(json_data, subjects[s], stimuli_type,
                                           ret.between_factor_list,
                                           ret.within_factor_list)
                         /\ ~cell.isNone)
                        => \A k \in 0..(Len(cell.val) - 1) :
                              \E b \in 1..Len(fr.built) :
                                 /\ fr.built[b].sub_index = s - 1
                                 /\ fr.built[b].stimuli_index = t - 1
                                 /\ fr.built[b].k = k
                                 /\ fr.built[b].appended

(* the subjects checked in a snapshot of the checkboxes, in list order *)
RECURSIVE CheckedIn(_, _)
CheckedIn(chk, j) ==
    IF j > Len(chk) THEN <<>>
    ELSE (IF chk[j] = 1 THEN <<subjects[j].name>> ELSE <<>>) \o CheckedIn(chk, j + 1)

(* C7 as stated: every click on 'Visualize' (group mode) makes exactly one *)
(* delegate call, with viz_type 'group' and sub_list the checked subjects  *)
(* in subject-list order; every click on a subject's button (individual    *)
(* mode) makes exactly one delegate call to that subject.                  *)
C7_OneDelegateCallPerClick ==
    \A c \in 1..Len(clicks) :
       /\ Len(clicks[c].made) = 1
       /\ clicks[c].button = "Visualize" =>
             /\ clicks[c].made[1].viz_type = "group"
             /\ clicks[c].made[1].sub_list = CheckedIn(clicks[c].chk, 1)
       /\ clicks[c].button = "subject" =>
             clicks[c].made[1].sub = clicks[c].sub

(* C7 amended: a click on 'Visualize' with at least one subject checked    *)
(* makes exactly one delegate call, to the first checked subject, with     *)
(* viz_type 'group' and sub_list the checked subjects in subject-list      *)
(* order; with no subject checked it makes no delegate call (the handler   *)
(* raises IndexError); a click on a subject's button makes exactly one     *)
(* delegate call to that subject.                                          *)
C7_OneDelegateCallWhenChecked ==
    \A c \in 1..Len(clicks) :
       /\ (clicks[c].button = "Visualize" /\ CheckedIn(clicks[c].chk, 1) # <<>>) =>
             /\ Len(clicks[c].made) = 1
             /\ clicks[c].made[1].sub = CheckedIn(clicks[c].chk, 1)[1]
             /\ clicks[c].made[1].viz_type = "group"
             /\ clicks[c].made[1].sub_list = CheckedIn(clicks[c].chk, 1)
             /\ clicks[c].exc = "none"
       /\ (clicks[c].button = "Visualize" /\ CheckedIn(clicks[c].chk, 1) = <<>>) =>
             /\ clicks[c].made = <<>>
             /\ clicks[c].exc = "IndexError"
       /\ clicks[c].button = "subject" =>
             /\ Len(clicks[c].made) = 1
             /\ clicks[c].made[1].sub = clicks[c].sub
             /\ clicks[c].exc = "none"

(* 'Visualize' was clicked with several subjects checked, after the mode   *)
(* was changed and a subject's button was clicked                          *)
C7_Witness ==
    /\ Len(clicks) >= 2
    /\ clicks[1].button = "subject"
    /\ clicks[Len(clicks)].button = "Visualize"
    /\ Len(CheckedIn(clicks[Len(clicks)].chk, 1)) >= 2

(* C8: in every row built from the k-th value of a cell, the value of an   *)
(* additional within factor is the one configured for the k-th stimulus of *)
(* the cell's stimulus type.  (Stated for configurations that define the   *)
(* factor for every stimulus, and unaveraged cells.)                       *)
C8_WithinFactorOfKthStimulus ==
    (/\ ret.op = "analyse"
     /\ json_data.stim_fmt = "dict"
     /\ json_data.stim_undef = <<>>)
    => \A i \in 1..Len(ret.frames) :
          LET fr == ret.frames[i]
          IN  \A b \in 1..Len(fr.built) :
              \A j \in 1..Len(ret.within_factor_list) :
                 LET param == ret.within_factor_list[j]
                     cell  == Get(meta_matrix_dict[2], fr.meta)
                                 .cells[<<fr.built[b].sub_index, fr.built[b].stimuli_index>>]
                 IN  (param # "Stimuli_type" /\ Len(cell.val) = StimPerType)
                     => \E h \in 1..Len(fr.built[b].row) :
                           fr.built[b].row[h] = <<param, fr.built[b].k>>

====
